---- MODULE Spec2Model ----
(***************************************************************************)
(* Model of main.py: an incremental scraper.  One run loads the JSON store, *)
(* fetches the listing page, keeps the first `limit` stubs, fetches and     *)
(* parses every stub whose url is not in the loaded store, and rewrites the *)
(* store (existing + new) once at the end when something new was parsed.    *)
(*                                                                         *)
(* Strings are sequences of tokens (a token is one character or one atomic  *)
(* piece of text), so that strip(), startswith() and concatenation are      *)
(* computed and not assumed.                                                *)
(***************************************************************************)
EXTENDS Integers, Sequences, FiniteSets, TLC

\* ------------------------------------------------------------------ bounds
\* Longest listing page (number of <article><h2><a> anchors) explored.
MaxAnchors == 3

\* ------------------------------------------------------- program constants
DefaultLimit == 5
SleepSeconds == 1

Origin == <<"https://habr.com">>
HABR_URL == <<"https://habr.com", "/", "ru", "/", "all", "/">>

\* ----------------------------------------------------------- string helpers
IsSpace(c) == c \in {" ", "\n", "\t"}

RECURSIVE LStrip(_)
LStrip(s) == IF s # <<>> /\ IsSpace(Head(s)) THEN LStrip(Tail(s)) ELSE s

RECURSIVE RStrip(_)
RStrip(s) ==
    IF s # <<>> /\ IsSpace(s[Len(s)]) THEN RStrip(SubSeq(s, 1, Len(s) - 1)) ELSE s

\* str.strip()
Strip(s) == RStrip(LStrip(s))

\* str.startswith(p) for a one-token prefix
StartsWith(s, c) == s # <<>> /\ Head(s) = c

\* python truthiness of a str / list
Truthy(s) == s # <<>>

\* seq[:n] with python's treatment of a negative or oversized n
SliceTo(s, n) ==
    LET stop0 == IF n < 0 THEN n + Len(s) ELSE n
        stop1 == IF stop0 < 0 THEN 0 ELSE stop0
        stop  == IF stop1 > Len(s) THEN Len(s) ELSE stop1
    IN  SubSeq(s, 1, stop)

RECURSIVE JoinLines(_)
\* "\n".join(parts)
JoinLines(parts) ==
    IF parts = <<>> THEN <<>>
    ELSE IF Len(parts) = 1 THEN parts[1]
    ELSE parts[1] \o <<"\n">> \o JoinLines(Tail(parts))

RECURSIVE Flatten(_)
Flatten(ss) == IF ss = <<>> THEN <<>> ELSE Head(ss) \o Flatten(Tail(ss))

RECURSIVE SelectNonEmpty(_)
SelectNonEmpty(ss) ==
    IF ss = <<>> THEN <<>>
    ELSE IF Truthy(Head(ss)) THEN <<Head(ss)>> \o SelectNonEmpty(Tail(ss))
    ELSE SelectNonEmpty(Tail(ss))

\* all sequences over S of length at most n
SeqUpTo(S, n) == UNION {[1..k -> S] : k \in 0..n}

\* ------------------------------------------------ the listing-page extractor
\* An anchor matched by //article//h2/a: its text content and its href
\* attribute (<<>> when the attribute is missing, <<value>> when present).
Anchor(text, href) == [text |-> text, href |-> href]

\* a.get("href") or ""
HrefOrEmpty(a) == IF a.href = <<>> THEN <<>> ELSE a.href[1]

\* href after the site-relative rewrite (lines 49-51)
AbsHref(a) ==
    LET href == HrefOrEmpty(a)
    IN  IF StartsWith(href, "/") THEN Origin \o href ELSE href

\* title = (a.text_content() or "").strip()
TitleOf(a) == Strip(a.text)

\* the emission test of line 52
Emits(a) == Truthy(TitleOf(a)) /\ Truthy(AbsHref(a))

RECURSIVE parse_main_page(_)
parse_main_page(nodes) ==
    IF nodes = <<>> THEN <<>>
    ELSE LET a == Head(nodes)
             rest == parse_main_page(Tail(nodes))
         IN  IF Emits(a)
             THEN <<[title |-> TitleOf(a), url |-> AbsHref(a)]>> \o rest
             ELSE rest

\* ------------------------------------------------ the article-page extractor
\* An article page: the div.article-formatted-body containers (each a
\* sequence of p/li texts) and the spans the two counters are read from
\* (<<>> when no element matches, <<text>> for the first match).
FirstOr(primary, fallback) == IF primary # <<>> THEN primary ELSE fallback

CounterText(primary, fallback) ==
    LET tag == FirstOr(primary, fallback)
    IN  IF tag # <<>> THEN Strip(tag[1]) ELSE <<"0">>

StripAll(ps) == [k \in 1..Len(ps) |-> Strip(ps[k])]

get_article_data(page) ==
    [text     |-> JoinLines(SelectNonEmpty(StripAll(Flatten(page.divs)))),
     likes    |-> CounterText(page.votes, page.vote_cls),
     comments |-> CounterText(page.comm, page.comm_cls)]

\* ------------------------------------------------------------ the store file
\* The file articles.json: absent, or present holding a JSON document that
\* is either an array of records or text json.load cannot parse.
Absent == [exists |-> FALSE, valid |-> FALSE, items |-> <<>>]
Garbage == [exists |-> TRUE, valid |-> FALSE, items |-> <<>>]
JsonArray(items) == [exists |-> TRUE, valid |-> TRUE, items |-> items]

Urls(records) == {records[k].url : k \in 1..Len(records)}

\* ------------------------------------------------------------------- inputs
UrlA == Origin \o <<"/", "a">>
UrlB == Origin \o <<"/", "b">>
UrlC == Origin \o <<"/", "c">>
UrlD == Origin \o <<"/", "d">>

Rec(title, url) ==
    [title |-> title, url |-> url, text |-> <<"old">>,
     likes |-> <<"7">>, comments |-> <<"0">>]

RecA == Rec(<<"A">>, UrlA)
RecA2 == Rec(<<"A", "2">>, UrlA)
RecB == Rec(<<"B">>, UrlB)

\* store files a run may start from
Stores ==
    {Absent, Garbage, JsonArray(<<>>), JsonArray(<<RecA, RecB>>),
     JsonArray(<<RecA, RecA2>>)}

\* anchors of the listing pages a run may be served
AnchorA == Anchor(<<" ", "A", " ">>, <<<<"/", "a">>>>)
AnchorAabs == Anchor(<<"A", "!">>, <<UrlA>>)
AnchorC == Anchor(<<"C">>, <<<<"/", "c">>>>)
AnchorD == Anchor(<<"D">>, <<<<"/", "d">>>>)
AnchorBlankTitle == Anchor(<<" ">>, <<<<"/", "x">>>>)
AnchorNoTitle == Anchor(<<>>, <<<<"/", "y">>>>)
AnchorNoHref == Anchor(<<"E">>, <<>>)
AnchorEmptyHref == Anchor(<<"F">>, <<<<>>>>)
AnchorBlankHref == Anchor(<<"G">>, <<<<" ">>>>)
AnchorPaddedHref == Anchor(<<"H">>, <<<<" ", "/", "h">>>>)

MainAnchors ==
    {AnchorA, AnchorAabs, AnchorC, AnchorD, AnchorBlankTitle, AnchorBlankHref}

UnitAnchors ==
    MainAnchors \cup {AnchorNoTitle, AnchorNoHref, AnchorEmptyHref,
                      AnchorPaddedHref}

\* command lines: no argument, or one integer argument
Argvs == {<<>>, <<-1>>, <<0>>, <<2>>}

\* article pages the site may serve
Page2 ==
    [divs |-> << << <<"q">> >>, << <<>>, <<"r", " ">> >> >>,
     votes |-> << <<"1", ".", "2", "K">> >>, vote_cls |-> << <<"9">> >>,
     comm |-> << <<" ", "4">> >>, comm_cls |-> <<>>]

Page1 ==
    [divs |-> << << <<" ", "p", "1">>, <<" ">>, <<"p", "2">> >> >>,
     votes |-> <<>>, vote_cls |-> << <<"+", "3", " ">> >>,
     comm |-> <<>>, comm_cls |-> <<>>]

\* the page the site serves at a url
PageAt(url) == IF url = UrlC THEN Page2 ELSE Page1

\* -------------------------------------------------------------------- state
VARIABLES
    pc,             \* position of the run
    argv,           \* sys.argv[1:]
    site,           \* anchors of the listing page the site serves
    file,           \* articles.json now
    file0,          \* articles.json when the run started
    limit,
    existing_data,
    existing_urls,
    articles,
    idx,            \* 1-based position of the for loop in articles
    new_articles,
    article_html,   \* the page fetched for the current candidate
    requests,       \* urls GET was issued for, in order
    responses,      \* outcome of each request: "ok" or "error"
    parsed,         \* candidates whose record was built: position and page
    slept,          \* seconds spent in time.sleep
    writes,         \* number of save_data calls
    out             \* lines printed, in order

vars ==
    <<pc, argv, site, file, file0, limit, existing_data, existing_urls,
      articles, idx, new_articles, article_html, requests, responses, parsed,
      slept, writes, out>>

NoPage == [divs |-> <<>>, votes |-> <<>>, vote_cls |-> <<>>,
           comm |-> <<>>, comm_cls |-> <<>>]

Line(kind, arg) == [kind |-> kind, arg |-> arg]

InitWith(anchors, entry, argvs, stores) ==
    /\ pc = entry
    /\ argv \in argvs
    /\ site \in SeqUpTo(anchors, MaxAnchors)
    /\ file0 \in stores
    /\ file = file0
    /\ limit = DefaultLimit
    /\ existing_data = <<>>
    /\ existing_urls = {}
    /\ articles = <<>>
    /\ idx = 1
    /\ new_articles = <<>>
    /\ article_html = NoPage
    /\ requests = <<>>
    /\ responses = <<>>
    /\ parsed = <<>>
    /\ slept = 0
    /\ writes = 0
    /\ out = <<>>

Init == InitWith(MainAnchors, "entry", Argvs, Stores)

\* ------------------------------------------------------------------ actions
\* __main__ (lines 144-146): limit from the command line, default 5.
Entry ==
    /\ pc = "entry"
    /\ limit' = IF Len(argv) > 0 THEN argv[1] ELSE DefaultLimit
    /\ pc' = "load"
    /\ UNCHANGED <<argv, site, file, file0, existing_data, existing_urls,
                   articles, idx, new_articles, article_html, requests,
                   responses, parsed, slept, writes, out>>

\* variant: a malformed file is swallowed and read as an empty store
LoadRaisesNever(f) == FALSE

\* load_existing_data: what it returns, or that json.load raises
LoadRaises(f) == f.exists /\ ~f.valid
load_existing_data(f) == IF f.exists THEN f.items ELSE <<>>

\* main, lines 103-106: the store is loaded before anything is requested; a
\* malformed file is an exception nothing catches.
Load ==
    /\ pc = "load"
    /\ IF LoadRaises(file)
       THEN /\ pc' = "crashed"
            /\ UNCHANGED <<existing_data, existing_urls>>
       ELSE /\ existing_data' = load_existing_data(file)
            /\ existing_urls' = Urls(load_existing_data(file))
            /\ pc' = "listing"
    /\ UNCHANGED <<argv, site, file, file0, limit, articles, idx, new_articles,
                   article_html, requests, responses, parsed, slept, writes,
                   out>>

\* main, lines 108-111: GET the listing; fetch_html raising (network error,
\* raise_for_status) is not caught here.
FetchListing ==
    /\ pc = "listing"
    /\ requests' = Append(requests, HABR_URL)
    /\ \E ok \in BOOLEAN :
         IF ok
         THEN /\ responses' = Append(responses, "ok")
              /\ articles' = SliceTo(parse_main_page(site), limit)
              /\ new_articles' = <<>>
              /\ idx' = 1
              /\ pc' = "loop"
         ELSE /\ responses' = Append(responses, "error")
              /\ pc' = "crashed"
              /\ UNCHANGED <<articles, new_articles, idx>>
    /\ UNCHANGED <<argv, site, file, file0, limit, existing_data, existing_urls,
                   article_html, parsed, slept, writes, out>>

\* variant: membership tested on the title instead of the url
KnownByTitle(art) == art.title \in existing_urls

\* the test of line 114
Known(art) == art.url \in existing_urls

\* variant: the delay is taken after a skip too
SkipThenSleep ==
    /\ pc = "loop"
    /\ idx <= Len(articles)
    /\ Known(articles[idx])
    /\ out' = Append(out, Line("skip", articles[idx].title))
    /\ slept' = slept + SleepSeconds
    /\ idx' = idx + 1
    /\ UNCHANGED <<pc, argv, site, file, file0, limit, existing_data,
                   existing_urls, articles, new_articles, article_html,
                   requests, responses, parsed, writes>>

\* lines 113-116: a candidate whose url is known is reported and the loop
\* continues with the next one.
Skip ==
    /\ pc = "loop"
    /\ idx <= Len(articles)
    /\ Known(articles[idx])
    /\ out' = Append(out, Line("skip", articles[idx].title))
    /\ idx' = idx + 1
    /\ UNCHANGED <<pc, argv, site, file, file0, limit, existing_data,
                   existing_urls, articles, new_articles, article_html,
                   requests, responses, parsed, slept, writes>>

\* lines 118-119: entering the try block for a candidate that is not known
Announce ==
    /\ pc = "loop"
    /\ idx <= Len(articles)
    /\ ~Known(articles[idx])
    /\ out' = Append(out, Line("parse", articles[idx].title))
    /\ pc' = "fetch"
    /\ UNCHANGED <<argv, site, file, file0, limit, existing_data, existing_urls,
                   articles, idx, new_articles, article_html, requests,
                   responses, parsed, slept, writes>>

\* variant: the article fetch sits outside the try block
FetchArticleUncaught ==
    /\ pc = "fetch"
    /\ requests' = Append(requests, articles[idx].url)
    /\ \/ /\ responses' = Append(responses, "ok")
          /\ article_html' = PageAt(articles[idx].url)
          /\ pc' = "parse"
       \/ /\ responses' = Append(responses, "error")
          /\ pc' = "crashed"
          /\ article_html' = article_html
    /\ UNCHANGED <<argv, site, file, file0, limit, existing_data, existing_urls,
                   articles, idx, new_articles, parsed, slept, writes, out>>

\* line 120 (and 131-132 when fetch_html raises)
FetchArticle ==
    /\ pc = "fetch"
    /\ requests' = Append(requests, articles[idx].url)
    /\ \/ /\ responses' = Append(responses, "ok")
          /\ article_html' = PageAt(articles[idx].url)
          /\ pc' = "parse"
          /\ out' = out
       \/ /\ responses' = Append(responses, "error")
          /\ out' = Append(out, Line("error", articles[idx].url))
          /\ pc' = "sleep"
          /\ article_html' = article_html
    /\ UNCHANGED <<argv, site, file, file0, limit, existing_data, existing_urls,
                   articles, idx, new_articles, parsed, slept, writes>>

\* the record assembled in lines 123-129
article_data(art, extra_data) ==
    [title |-> art.title, url |-> art.url, text |-> extra_data.text,
     likes |-> extra_data.likes, comments |-> extra_data.comments]

\* variant: the store is written even when nothing new was parsed
ShouldSaveAlways(new) == TRUE

\* the test of line 136
ShouldSave(new) == Truthy(new)

\* variant: the new records are put in front of the existing ones
all_data_new_first(existing, new) == new \o existing

\* line 137
all_data(existing, new) == existing \o new

\* save_data: the file is overwritten with the whole sequence
save_data(data) == JsonArray(data)

\* variant: the store is rewritten after every parsed article
ParseArticleCheckpoint ==
    /\ pc = "parse"
    /\ \/ /\ new_articles' =
               Append(new_articles,
                      article_data(articles[idx], get_article_data(article_html)))
          /\ parsed' = Append(parsed, [i |-> idx, page |-> article_html])
          /\ file' = save_data(all_data(existing_data, new_articles'))
          /\ writes' = writes + 1
          /\ out' = out
       \/ /\ out' = Append(out, Line("error", articles[idx].url))
          /\ UNCHANGED <<new_articles, parsed, file, writes>>
    /\ pc' = "sleep"
    /\ UNCHANGED <<argv, site, file0, limit, existing_data, existing_urls,
                   articles, idx, article_html, requests, responses, slept>>

\* lines 121-130 (and 131-132 when the extractor raises)
ParseArticle ==
    /\ pc = "parse"
    /\ \/ /\ new_articles' =
               Append(new_articles,
                      article_data(articles[idx], get_article_data(article_html)))
          /\ parsed' = Append(parsed, [i |-> idx, page |-> article_html])
          /\ out' = out
       \/ /\ out' = Append(out, Line("error", articles[idx].url))
          /\ UNCHANGED <<new_articles, parsed>>
    /\ pc' = "sleep"
    /\ UNCHANGED <<argv, site, file, file0, limit, existing_data, existing_urls,
                   articles, idx, article_html, requests, responses, slept,
                   writes>>

\* line 134, then the next iteration
Sleep ==
    /\ pc = "sleep"
    /\ slept' = slept + SleepSeconds
    /\ idx' = idx + 1
    /\ pc' = "loop"
    /\ UNCHANGED <<argv, site, file, file0, limit, existing_data, existing_urls,
                   articles, new_articles, article_html, requests, responses,
                   parsed, writes, out>>

\* lines 136-141
Finish ==
    /\ pc = "loop"
    /\ idx > Len(articles)
    /\ IF ShouldSave(new_articles)
       THEN /\ file' = save_data(all_data(existing_data, new_articles))
            /\ writes' = writes + 1
            /\ out' = Append(out, Line("added", <<>>))
       ELSE /\ out' = Append(out, Line("none", <<>>))
            /\ UNCHANGED <<file, writes>>
    /\ pc' = "done"
    /\ UNCHANGED <<argv, site, file0, limit, existing_data, existing_urls,
                   articles, idx, new_articles, article_html, requests,
                   responses, parsed, slept>>

Running == pc \in {"entry", "load", "listing", "loop", "fetch", "parse", "sleep"}

\* the process is terminated from outside (KeyboardInterrupt is no Exception,
\* so line 131 does not catch it)
Interrupt ==
    /\ Running
    /\ pc' = "interrupted"
    /\ UNCHANGED <<argv, site, file, file0, limit, existing_data, existing_urls,
                   articles, idx, new_articles, article_html, requests,
                   responses, parsed, slept, writes, out>>

\* the steps the program takes by itself
Step ==
    \/ Entry
    \/ Load
    \/ FetchListing
    \/ Skip
    \/ Announce
    \/ FetchArticle
    \/ ParseArticle
    \/ Sleep
    \/ Finish

Next == Step \/ Interrupt

Spec == Init /\ [][Next]_vars

\* ------------------------------------------- the listing extractor on its own
InitUnit == InitWith(UnitAnchors, "unit", {<<>>}, {Absent})

ParseUnit ==
    /\ pc = "unit"
    /\ articles' = parse_main_page(site)
    /\ pc' = "unit_done"
    /\ UNCHANGED <<argv, site, file, file0, limit, existing_data, existing_urls,
                   idx, new_articles, article_html, requests, responses,
                   parsed, slept, writes, out>>

NextUnit == ParseUnit

SpecUnit == InitUnit /\ [][NextUnit]_vars

\* ------------------------------------------------------------- properties
\* what the run started from and what it asked for, read off the history
LoadedItems == file0.items
LoadedUrls == Urls(LoadedItems)
ArticleRequests == IF requests = <<>> THEN <<>> ELSE Tail(requests)
ListingParsed == responses # <<>> /\ responses[1] = "ok"
ListingFailed == responses # <<>> /\ responses[1] = "error"
Stubs == parse_main_page(site)
NotLoaded(art) == art.url \notin LoadedUrls
UrlsOf(seq) == [k \in 1..Len(seq) |-> seq[k].url]
HasLine(kind) == \E k \in 1..Len(out) : out[k].kind = kind
HasError(url) == \E k \in 1..Len(out) : out[k] = Line("error", url)
NoFailures == ~HasLine("error")
Distinct(seq) == \A i, j \in 1..Len(seq) : i # j => seq[i] # seq[j]
\* the record a parsed candidate must end up as
RecordOf(p) == article_data(articles[p.i], get_article_data(p.page))
ParsedRecords == [k \in 1..Len(parsed) |-> RecordOf(parsed[k])]
Increasing(ps) == \A i, j \in 1..Len(ps) : i < j => ps[i].i < ps[j].i
InLoop == pc \in {"loop", "fetch", "parse", "sleep"}

\* C1: no article page is requested for a url that a record of the store
\* loaded at start carries; a known candidate is passed over without a request.
C1_NoRefetch ==
    \A k \in 1..Len(ArticleRequests) : ArticleRequests[k] \notin LoadedUrls

\* store {A, B}, listing [A, C, D]: the run ends having requested C and D only
C1_Witness ==
    /\ pc = "done"
    /\ file0 = JsonArray(<<RecA, RecB>>)
    /\ UrlsOf(articles) = <<UrlA, UrlC, UrlD>>
    /\ requests = <<HABR_URL, UrlC, UrlD>>

\* C2: a written store is the loaded sequence, unchanged and in order,
\* followed by one record per candidate parsed in this run, in listing order.
C2_AppendOnly ==
    writes > 0 =>
        /\ file = JsonArray(LoadedItems \o ParsedRecords)
        /\ Increasing(parsed)
        /\ parsed # <<>>

C2_Witness ==
    /\ pc = "done"
    /\ writes = 1
    /\ file0 = JsonArray(<<RecA, RecB>>)
    /\ Len(parsed) = 2
    /\ SubSeq(file.items, 1, 2) = <<RecA, RecB>>
    /\ Len(file.items) = 4

\* urls of the candidates among the first n that are not in the loaded store
Attempted(n) == UrlsOf(SelectSeq(SubSeq(articles, 1, n), NotLoaded))
AfterError == pc = "sleep" /\ out # <<>> /\ out[Len(out)].kind = "error"

\* C3: a failure on one candidate neither ends the run nor keeps later
\* candidates from being attempted: the run never stops on an exception once
\* an article was requested, the loop goes on after a reported failure, and
\* whatever failed before, the requests made are those for every candidate
\* passed so far whose url is unknown; at the end that is every such
\* candidate in the limit, every parsed candidate's record is in the store,
\* and the failed ones added nothing.
C3_FailureIsolated ==
    /\ pc = "crashed" => ArticleRequests = <<>>
    /\ AfterError => ENABLED Sleep
    /\ (ListingParsed /\ pc \in {"loop", "fetch", "done"}) =>
           ArticleRequests = Attempted(idx - 1)
    /\ pc \in {"parse", "sleep"} => ArticleRequests = Attempted(idx)
    /\ pc = "done" =>
        /\ ArticleRequests = UrlsOf(SelectSeq(articles, NotLoaded))
        /\ \A k \in 1..Len(parsed) :
               /\ file.exists /\ file.valid
               /\ \E j \in 1..Len(file.items) : file.items[j] = RecordOf(parsed[k])
        /\ Len(file.items) = Len(LoadedItems) + Len(parsed)

\* candidates [C, D], C fails on the network: the store holds D only
C3_Witness ==
    /\ pc = "done"
    /\ file0 = Absent
    /\ UrlsOf(articles) = <<UrlC, UrlD>>
    /\ responses = <<"ok", "error", "ok">>
    /\ HasError(UrlC)
    /\ Len(file.items) = 1
    /\ file.items[1].url = UrlD

\* C4: a run that ends with an empty buffer has written nothing: the file is
\* as it was at start, and an absent file is still absent.
C4_NoWriteWhenEmpty ==
    (pc = "done" /\ new_articles = <<>>) => (writes = 0 /\ file = file0)

\* every fetch failed and there was no file
C4_Witness ==
    /\ pc = "done"
    /\ new_articles = <<>>
    /\ file0 = Absent
    /\ file = Absent
    /\ Len(ArticleRequests) >= 2

\* the first n elements, none when n is not positive
FirstN(seq, n) ==
    SubSeq(seq, 1, IF n < 0 THEN 0 ELSE IF n > Len(seq) THEN Len(seq) ELSE n)

\* C5: for any integer limit N a run considers the first N stubs of the
\* listing only, in order: it requests no stub past position N, at most N in
\* all, and from an empty or absent store with no failure the file it creates
\* holds exactly the records of those N stubs.
C5_FirstN ==
    LET first == FirstN(Stubs, limit)
    IN  ListingParsed =>
            /\ articles = first
            /\ Len(ArticleRequests) <= Len(first)
            /\ \A k \in 1..Len(ArticleRequests) :
                   \E j \in 1..Len(first) : first[j].url = ArticleRequests[k]
            /\ (/\ pc = "done"
                /\ LoadedItems = <<>>
                /\ NoFailures
                /\ first # <<>>)
               => file = JsonArray([k \in 1..Len(first) |->
                                      article_data(first[k],
                                          get_article_data(PageAt(first[k].url)))])

\* C6: from a store without two records of one url, the saved store has no
\* two records of one url and no url is requested twice in the run.
C6_UrlUnique ==
    Distinct(UrlsOf(LoadedItems)) =>
        /\ Distinct(UrlsOf(file.items))
        /\ Distinct(ArticleRequests)

\* what the listing extractor is said to require of an anchor
BothNonBlank(a) == Truthy(Strip(a.text)) /\ Truthy(Strip(HrefOrEmpty(a)))

\* C7: parse_main_page emits a stub for exactly the anchors whose trimmed
\* title and trimmed href are both non-empty, in document order, so no
\* emitted stub has a blank title or a blank url.
C7_NoBlankStub ==
    pc = "unit_done" =>
        /\ \A k \in 1..Len(articles) :
               /\ Truthy(Strip(articles[k].title))
               /\ Truthy(Strip(articles[k].url))
        /\ Len(articles) = Len(SelectSeq(site, BothNonBlank))
        /\ [k \in 1..Len(articles) |-> articles[k].title]
             = [k \in 1..Len(SelectSeq(site, BothNonBlank)) |->
                  TitleOf(SelectSeq(site, BothNonBlank)[k])]

\* C8 as stated: every candidate the loop is through, skipped or not, was
\* followed by the one-second delay.
C8_DelayAfterEvery ==
    (ListingParsed /\ pc \in {"loop", "done"}) => slept = SleepSeconds * (idx - 1)

\* C8 amended: the delay follows every candidate that was requested,
\* parsed or failed, and no candidate that was skipped as known.
C8_DelayAfterFetched ==
    ListingParsed =>
        /\ slept = SleepSeconds
                     * Cardinality({k \in 1..(idx - 1) : NotLoaded(articles[k])})
        /\ pc \in {"loop", "done"} => slept = SleepSeconds * Len(ArticleRequests)

\* a run that skipped one, failed one and parsed one
C8_Witness ==
    /\ pc = "done"
    /\ HasLine("skip")
    /\ HasLine("error")
    /\ Len(parsed) = 1
    /\ Len(articles) = 3
    /\ slept = 2 * SleepSeconds

\* C9: a malformed store ends the run before any request; a failed listing
\* request ends it before any article request; the file is untouched by both.
C9_FatalBeforeLoop ==
    /\ (file0.exists /\ ~file0.valid) =>
           /\ requests = <<>>
           /\ file = file0
           /\ writes = 0
           /\ pc \in {"entry", "load", "crashed", "interrupted"}
    /\ ListingFailed =>
           /\ pc = "crashed"
           /\ requests = <<HABR_URL>>
           /\ file = file0
           /\ writes = 0
    /\ pc = "crashed" => (file = file0 /\ writes = 0 /\ new_articles = <<>>)

C9_Witness ==
    /\ pc = "crashed"
    /\ file0 = Garbage
    /\ requests = <<>>

\* C10: the store is written at most once, by the last step: until the run
\* is done the file is what it was at start, so a run stopped inside the loop
\* leaves the file as it was and the records it held in memory are gone.
C10_SingleFinalWrite ==
    /\ writes <= 1
    /\ pc # "done" => (file = file0 /\ writes = 0)

\* stopped with two records in memory
C10_Witness ==
    /\ pc = "interrupted"
    /\ Len(new_articles) = 2
    /\ file = file0
    /\ file0 = JsonArray(<<RecA, RecB>>)

====
